---- MODULE Spec2Model ----
(***************************************************************************)
(* PanDelos-plus: k-mer based Generalized Jaccard similarity and the       *)
(* two-phase Bidirectional Best Hit (BBH) extraction of lib/Homology.hh    *)
(* and lib/bbh/BBHCandidatesContainer.hh.                                  *)
(***************************************************************************)
EXTENDS Integers, Sequences, FiniteSets, Bags, TLC

(***************************************************************************)
(* Bounds of the model.                                                    *)
(***************************************************************************)
K == 2
MaxLen == 5
MaxGarbage == 1
MaxGenomes == 3
MaxTotalGenes == 3
MaxThreads == 2
MaxCalls == 2
MaxLines == 1
MaxCandRows == 2
MaxCandCols == 2
MaxAdds == 3
\* std::size_t is taken SizeBits wide
SizeBits == 16

Alphabet == {"A", "B"}

\* every gene sequence of length 0..n over the alphabet
SeqsUpTo(n) == UNION {[1..m -> Alphabet] : m \in 0..n}

(***************************************************************************)
(* Scores.  score_t is a floating point type; a score is kept as the       *)
(* reduced fraction <<n, d>> it was computed from, d = 0 being the         *)
(* not-a-number that 0.0/0 yields.  Comparisons follow IEEE-754: every     *)
(* ordered or equality comparison with a NaN operand is false.             *)
(***************************************************************************)
RECURSIVE GCD(_, _)
GCD(a, b) == IF b = 0 THEN a ELSE GCD(b, a % b)

NaN == <<0, 0>>
Zero == <<0, 1>>
One == <<1, 1>>
MinusOne == <<-1, 1>>
NoScore == <<>>

\* 1.0*num/div of line 325
Divide(num, div) ==
    IF div = 0 THEN NaN
    ELSE LET g == GCD(num, div) IN <<num \div g, div \div g>>

IsNaN(s) == s[2] = 0
ScoreLt(a, b) == ~IsNaN(a) /\ ~IsNaN(b) /\ a[1] * b[2] < b[1] * a[2]
ScoreEq(a, b) == ~IsNaN(a) /\ ~IsNaN(b) /\ a[1] * b[2] = b[1] * a[2]
ScoreLe(a, b) == ScoreLt(a, b) \/ ScoreEq(a, b)

(***************************************************************************)
(* KmerMapper and KmersContainer (kmers/KmerMapper.hh, the gene's k-mer    *)
(* container): keys are dense integers given in first-seen order, a        *)
(* container is the sequence of <<key, multiplicity>> sorted by key.       *)
(***************************************************************************)
Windows(seq) ==
    IF Len(seq) < K THEN <<>>
    ELSE [w \in 1..(Len(seq) - K + 1) |-> SubSeq(seq, w, w + K - 1)]

Interned(mapper, w) == \E i \in 1..Len(mapper) : mapper[i] = w

RECURSIVE InternAll(_, _)
InternAll(mapper, ws) ==
    IF ws = <<>> THEN mapper
    ELSE InternAll(IF Interned(mapper, Head(ws)) THEN mapper
                   ELSE Append(mapper, Head(ws)), Tail(ws))

KeyOf(mapper, w) == (CHOOSE i \in 1..Len(mapper) : mapper[i] = w) - 1

RECURSIVE SortedSeq(_)
SortedSeq(S) ==
    IF S = {} THEN <<>>
    ELSE LET m == CHOOSE x \in S : \A y \in S : x <= y
         IN <<m>> \o SortedSeq(S \ {m})

\* the container of one gene, all of whose windows are interned in mapper
KmersContainer(mapper, seq) ==
    LET ws == Windows(seq)
        keys == SortedSeq({KeyOf(mapper, ws[i]) : i \in 1..Len(ws)})
    IN [p \in 1..Len(keys) |->
          <<keys[p], Cardinality({i \in 1..Len(ws) : KeyOf(mapper, ws[i]) = keys[p]})>>]

\* a gene as calculateSimilarity reads it
Gene(mapper, seq) == [len |-> Len(seq), kc |-> KmersContainer(mapper, seq)]

getAlphabetLength(gene) == gene.len
getKmersNum(gene) == Len(gene.kc)

RECURSIVE SumMult(_)
SumMult(kc) == IF kc = <<>> THEN 0 ELSE Head(kc)[2] + SumMult(Tail(kc))

getMultiplicityNumber(kc) == SumMult(kc)

\* the key bounds of an empty container are undefined: u is what the read yields
getBiggerKey(kc, u) == IF kc = <<>> THEN u ELSE kc[Len(kc)][1]

(***************************************************************************)
(* Homology::calculateSimilarity, container overload: the two-cursor merge *)
(***************************************************************************)
\* the merge leaving its loop already at the largest key of the longer container
RECURSIVE MergeExitAtBound(_, _, _, _, _, _)
MergeExitAtBound(s, l, longestBiggerKey, si, li, acc) ==
    IF si > Len(s) \/ li > Len(l) THEN acc
    ELSE LET shortestKey == s[si][1]
             longestKey == l[li][1]
             currentKmerValue == s[si][2]
             longestVal == l[li][2]
         IN IF shortestKey >= longestBiggerKey THEN acc
            ELSE IF shortestKey < longestKey
                 THEN MergeExitAtBound(s, l, longestBiggerKey, si + 1, li, acc)
            ELSE IF shortestKey > longestKey
                 THEN MergeExitAtBound(s, l, longestBiggerKey, si, li + 1, acc)
            ELSE MergeExitAtBound(s, l, longestBiggerKey, si + 1, li + 1,
                       [num |-> acc.num + (IF currentKmerValue < longestVal
                                           THEN currentKmerValue ELSE longestVal),
                        den |-> acc.den + (IF currentKmerValue < longestVal
                                           THEN longestVal ELSE currentKmerValue),
                        currentShortestMultiplicity |->
                            acc.currentShortestMultiplicity + currentKmerValue,
                        currentLongestMultiplicity |->
                            acc.currentLongestMultiplicity + longestVal])

RECURSIVE Merge(_, _, _, _, _, _)
Merge(s, l, longestBiggerKey, si, li, acc) ==
    IF si > Len(s) \/ li > Len(l) THEN acc
    ELSE LET shortestKey == s[si][1]
             longestKey == l[li][1]
             currentKmerValue == s[si][2]
             longestVal == l[li][2]
         IN IF shortestKey > longestBiggerKey THEN acc
            ELSE IF shortestKey < longestKey
                 THEN Merge(s, l, longestBiggerKey, si + 1, li, acc)
            ELSE IF shortestKey > longestKey
                 THEN Merge(s, l, longestBiggerKey, si, li + 1, acc)
            ELSE Merge(s, l, longestBiggerKey, si + 1, li + 1,
                       [num |-> acc.num + (IF currentKmerValue < longestVal
                                           THEN currentKmerValue ELSE longestVal),
                        den |-> acc.den + (IF currentKmerValue < longestVal
                                           THEN longestVal ELSE currentKmerValue),
                        currentShortestMultiplicity |->
                            acc.currentShortestMultiplicity + currentKmerValue,
                        currentLongestMultiplicity |->
                            acc.currentLongestMultiplicity + longestVal])

\* the unmatched terms taken as the whole multiplicity, the matched part not removed
SimilarityTermsKeepMatched(s, l, u) ==
    LET acc == Merge(s, l, getBiggerKey(l, u), 1, 1,
                     [num |-> 0, den |-> 0, currentShortestMultiplicity |-> 0,
                      currentLongestMultiplicity |-> 0])
    IN [num |-> acc.num, den |-> acc.den,
        unmatchedShort |-> getMultiplicityNumber(s),
        unmatchedLong |-> getMultiplicityNumber(l)]

\* the values line 325 combines: numerator, den and the two unmatched terms
SimilarityTerms(s, l, u) ==
    LET acc == Merge(s, l, getBiggerKey(l, u), 1, 1,
                     [num |-> 0, den |-> 0, currentShortestMultiplicity |-> 0,
                      currentLongestMultiplicity |-> 0])
    IN [num |-> acc.num, den |-> acc.den,
        unmatchedShort |-> getMultiplicityNumber(s) - acc.currentShortestMultiplicity,
        unmatchedLong |-> getMultiplicityNumber(l) - acc.currentLongestMultiplicity]

calculateSimilarityContainers(shortestContainer, longestContainer, u) ==
    LET t == SimilarityTerms(shortestContainer, longestContainer, u)
    IN Divide(t.num, t.den + (t.unmatchedShort + t.unmatchedLong))

\* the length filter of the gene overload
LengthFilter(gene1, gene2) ==
    \/ getAlphabetLength(gene1) < getAlphabetLength(gene2) \div 2
    \/ getAlphabetLength(gene2) < getAlphabetLength(gene1) \div 2

ShortestContainer(gene1, gene2) ==
    IF getKmersNum(gene1) < getKmersNum(gene2) THEN gene1.kc ELSE gene2.kc

LongestContainer(gene1, gene2) ==
    IF getKmersNum(gene1) < getKmersNum(gene2) THEN gene2.kc ELSE gene1.kc

\* Homology::calculateSimilarity, gene overload
calculateSimilarity(gene1, gene2, u) ==
    IF LengthFilter(gene1, gene2) THEN Zero
    ELSE calculateSimilarityContainers(ShortestContainer(gene1, gene2),
                                       LongestContainer(gene1, gene2), u)

(***************************************************************************)
(* ScoresContainer and BBHCandidate (ScoresContainer.hh, bbh/BBHCandidate.hh)*)
(* Rows and columns are numbered from 0 as in the source.                  *)
(***************************************************************************)
\* ScoresContainer(rows, cols): every cell reads 0 until it is set
ScoresContainer(rows, cols) == [r \in 0..(rows - 1) |-> [c \in 0..(cols - 1) |-> Zero]]

getScoreAt(sc, row, col) == sc[row][col]
setScoreAt(sc, row, col, score) == [sc EXCEPT ![row][col] = score]

BBHCandidate == [bestScore |-> Zero, list |-> {}]

\* BBHCandidate::addCandidate(score, index)
CandidateAdd(cand, newScore, newIndex) ==
    IF ScoreLt(cand.bestScore, newScore)
    THEN [bestScore |-> newScore, list |-> {newIndex}]
    ELSE IF ScoreEq(newScore, cand.bestScore) /\ ScoreLt(Zero, cand.bestScore)
    THEN [cand EXCEPT !.list = @ \cup {newIndex}]
    ELSE cand

(***************************************************************************)
(* BBHCandidatesContainer                                                  *)
(***************************************************************************)
BBHCandidatesContainer(capacity, totalCols) == [i \in 0..(capacity - 1) |-> BBHCandidate]

\* the candidate handed to every row instead of candidates_[candidateIndex]
addCandidateEveryRow(cands, candidateIndex, newScore, newIndex) ==
    [i \in DOMAIN cands |-> CandidateAdd(cands[i], newScore, newIndex)]

addCandidate(cands, candidateIndex, newScore, newIndex) ==
    [cands EXCEPT ![candidateIndex] = CandidateAdd(@, newScore, newIndex)]

getBestScoreForCandidate(cands, candidateIndex) == cands[candidateIndex].bestScore

getCapacity(cands) == Cardinality(DOMAIN cands)

\* the loop body without its else branch: a key already in the map gets a new
\* set holding only row i
MatchInsertRowOverwrite(map, i, list) ==
    [key \in (DOMAIN map) \cup list |-> IF key \in list THEN {i} ELSE map[key]]

\* one pass of the outer loop of getPossibleMatch: row i's list goes into the map
MatchInsertRow(map, i, list) ==
    [key \in (DOMAIN map) \cup list |->
        IF key \in list
        THEN (IF key \in DOMAIN map THEN map[key] \cup {i} ELSE {i})
        ELSE map[key]]

RECURSIVE MatchFrom(_, _, _)
MatchFrom(cands, i, map) ==
    IF i >= getCapacity(cands) THEN map
    ELSE MatchFrom(cands, i + 1, MatchInsertRow(map, i, cands[i].list))

EmptyMap == [key \in {} |-> {}]

getPossibleMatch(cands) == MatchFrom(cands, 0, EmptyMap)

(***************************************************************************)
(* Row phase: the task calculateRow / calculateRowSame hands to the pool   *)
(***************************************************************************)
\* the loop body for columns col..(limit-1) of one row
RECURSIVE RowLoop(_, _, _, _, _, _, _)
RowLoop(rowGene, colGenes, row, col, sb, limit, u) ==
    IF col >= limit THEN sb
    ELSE LET currentScore == calculateSimilarity(rowGene, colGenes[col + 1], u)
         IN RowLoop(rowGene, colGenes, row, col + 1,
                    [scores |-> setScoreAt(sb.scores, row, col, currentScore),
                     bestRows |-> addCandidate(sb.bestRows, row, currentScore, col),
                     written |-> sb.written (+) SetToBag({<<row, col>>})],
                    limit, u)

\* a same-genome row started at the first column
calculateRowSameFirstColZero(row) == 0

\* first column the task of a row visits
calculateRowFirstCol(row) == 0
calculateRowSameFirstCol(row) == row + 1

calculateRowTask(rowGenes, colGenes, row, sb, u) ==
    RowLoop(rowGenes[row + 1], colGenes, row, calculateRowFirstCol(row), sb,
            Len(colGenes), u)

calculateRowSameTask(genes, row, sb, u) ==
    RowLoop(genes[row + 1], genes, row, calculateRowSameFirstCol(row), sb,
            Len(genes), u)

(***************************************************************************)
(* Column phase: the task checkForBBH / checkForBBHSame hands to the pool  *)
(***************************************************************************)
\* the scan without its else-if branch: a row tied with the best is not kept
RECURSIVE ColumnScanNoTies(_, _, _, _, _)
ColumnScanNoTies(sc, colGeneId, row, limit, acc) ==
    IF row >= limit THEN acc
    ELSE LET currentScore == getScoreAt(sc, row, colGeneId)
         IN ColumnScanNoTies(sc, colGeneId, row + 1, limit,
                IF ScoreLt(acc.bestScore, currentScore)
                THEN [bestScore |-> currentScore, currentBestIndexs |-> {row}]
                ELSE acc)

\* rows 0..(limit-1) of column colGeneId: best score and the rows attaining it
RECURSIVE ColumnScan(_, _, _, _, _)
ColumnScan(sc, colGeneId, row, limit, acc) ==
    IF row >= limit THEN acc
    ELSE LET currentScore == getScoreAt(sc, row, colGeneId)
         IN ColumnScan(sc, colGeneId, row + 1, limit,
                IF ScoreLt(acc.bestScore, currentScore)
                THEN [bestScore |-> currentScore, currentBestIndexs |-> {row}]
                ELSE IF ScoreEq(currentScore, acc.bestScore)
                THEN [acc EXCEPT !.currentBestIndexs = @ \cup {row}]
                ELSE acc)

\* the scans stopping one row early
checkForBBHLimitShort(rows, colGeneId) == rows - 1
checkForBBHSameLimitShort(rows, colGeneId) == colGeneId - 1

\* number of rows the column task scans
checkForBBHLimit(rows, colGeneId) == rows
checkForBBHSameLimit(rows, colGeneId) == colGeneId

\* the edges the task of column colGeneId writes
ColumnEdges(sc, cands, colGeneId, limit) ==
    LET best == ColumnScan(sc, colGeneId, 0, limit,
                           [bestScore |-> MinusOne, currentBestIndexs |-> {}])
    IN {[row |-> currentIndex, col |-> colGeneId, score |-> best.bestScore] :
          currentIndex \in {x \in best.currentBestIndexs :
              ScoreEq(best.bestScore, getBestScoreForCandidate(cands, x))}}

checkForBBHTask(sc, cands, colGeneId) ==
    ColumnEdges(sc, cands, colGeneId, checkForBBHLimit(Cardinality(DOMAIN sc), colGeneId))

checkForBBHSameTask(sc, cands, colGeneId) ==
    ColumnEdges(sc, cands, colGeneId, checkForBBHSameLimit(Cardinality(DOMAIN sc), colGeneId))

\* std::to_string of a score: six decimals, here in millionths
Million == 1000000
to_string(s) == (2 * s[1] * Million + s[2]) \div (2 * s[2])

(***************************************************************************)
(* Similarity of one pair of genes: the two sequences, the order in which  *)
(* the mapper saw them, and the results of the two calls.                  *)
(***************************************************************************)
VARIABLES simSeq1, simSeq2, simFirst, simGarbage, simGenes, simFwd, simBwd

\* the state of a run of calculateBidirectionalBestHit
VARIABLES genomes, mode, threadNumber, pc, rowGenome, colGenome, mapper, kmers,
          scores, bestRows, match, queue, running, out, edges

driverVars == <<genomes, mode, threadNumber, pc, rowGenome, colGenome, mapper, kmers,
                scores, bestRows, match, queue, running, out, edges>>

\* the members the constructor of Homology sets
VARIABLES k_, pool_, fw

ctorVars == <<k_, pool_, fw>>

\* a KmersHandler: its members, its heap of Kmer objects, and the locals and
\* position of a call of calculateKmers
VARIABLES handlerK, alphabet_, dictionary_, khHeap, khPc, khI, kmersNum, currentKmers,
          khCalls
\* the string the last call of calculateKmersString returned, and the keys
\* and multiplicities of the dictionary as the first call of calculateKmers
\* left them
VARIABLES khString, khFirst

khVars == <<handlerK, alphabet_, dictionary_, khHeap, khPc, khI, kmersNum, currentKmers,
            khCalls, khString, khFirst>>

\* the column tasks writing to the shared output stream through the FileWriter
VARIABLES wrTasks, wrPending, wrCurrent, wrOwner, outStream_

wrVars == <<wrTasks, wrPending, wrCurrent, wrOwner, outStream_>>

\* a BBHCandidatesContainer under arbitrary addCandidate calls: the container,
\* the scores submitted for every row and column, the map getPossibleMatch
\* returned last, and the number of calls made
VARIABLES cdCands, cdSubmitted, cdMatch, cdCalls

cdVars == <<cdCands, cdSubmitted, cdMatch, cdCalls>>

\* the genome pairs handed to the two pair functions so far, in call order
VARIABLES compared
\* the cells setScoreAt was called on since the current pair's matrix was
\* allocated, one copy per call
VARIABLES written

histVars == <<compared, written>>

simVars == <<simSeq1, simSeq2, simFirst, simGarbage, simGenes, simFwd, simBwd>>

\* the sample genes a genome list is drawn from
GenePool ==
    << <<"A", "A", "A", "B">>, <<"B", "A", "A", "B">>, <<"B">> >>

PoolGenes == {GenePool[p] : p \in 1..Len(GenePool)}

\* the cut points that split t genes into n genomes (empty genomes included)
Cuts(t, n) ==
    {c \in [0..n -> 0..t] :
        /\ c[0] = 0
        /\ c[n] = t
        /\ \A h \in 1..n : c[h - 1] <= c[h]}

SplitAt(flat, c, n) == [h \in 1..n |-> SubSeq(flat, c[h - 1] + 1, c[h])]

\* every list of at most MaxGenomes genomes holding at most MaxTotalGenes genes
GenomeLists ==
    {<<>>} \cup
    UNION {UNION {{SplitAt(flat, c, n) : c \in Cuts(Len(flat), n)} :
                  flat \in UNION {[1..t -> PoolGenes] : t \in 0..MaxTotalGenes}} :
           n \in 1..MaxGenomes}

NoKmers == [built |-> FALSE, genes |-> <<>>]

DriverIdle ==
    /\ genomes = <<>>
    /\ mode = FALSE
    /\ threadNumber = 1
    /\ pc = "idle"
    /\ rowGenome = 1
    /\ colGenome = 1
    /\ mapper = <<>>
    /\ kmers = <<>>
    /\ scores = <<>>
    /\ bestRows = <<>>
    /\ match = <<>>
    /\ queue = <<>>
    /\ running = {}
    /\ out = EmptyBag
    /\ edges = EmptyBag
    /\ k_ = K
    /\ pool_ = "null"
    /\ fw = "null"
    /\ compared = <<>>
    /\ written = EmptyBag

CdIdle ==
    /\ cdCands = <<>>
    /\ cdSubmitted = {}
    /\ cdMatch = <<>>
    /\ cdCalls = 0

KhIdle ==
    /\ handlerK = K
    /\ alphabet_ = <<>>
    /\ dictionary_ = <<>>
    /\ khHeap = <<>>
    /\ khPc = "idle"
    /\ khI = 0
    /\ kmersNum = 0
    /\ currentKmers = <<>>
    /\ khCalls = 0
    /\ khString = <<>>
    /\ khFirst = <<>>

WrIdle ==
    /\ wrTasks = <<>>
    /\ wrPending = <<>>
    /\ wrCurrent = <<>>
    /\ wrOwner = 0
    /\ outStream_ = <<>>

SimIdle ==
    /\ simSeq1 = <<>>
    /\ simSeq2 = <<>>
    /\ simFirst = 1
    /\ simGarbage = 0
    /\ simGenes = <<>>
    /\ simFwd = NoScore
    /\ simBwd = NoScore

SimInit ==
    /\ simSeq1 \in SeqsUpTo(MaxLen)
    /\ simSeq2 \in SeqsUpTo(MaxLen)
    /\ simFirst \in {1, 2}
    /\ simGarbage \in 0..MaxGarbage
    /\ simGenes = <<>>
    /\ simFwd = NoScore
    /\ simBwd = NoScore
    /\ DriverIdle
    /\ KhIdle
    /\ WrIdle
    /\ CdIdle

\* both genes' k-mers are built through one mapper
SimCreateKmers ==
    /\ simGenes = <<>>
    /\ LET firstSeq == IF simFirst = 1 THEN simSeq1 ELSE simSeq2
           secondSeq == IF simFirst = 1 THEN simSeq2 ELSE simSeq1
           m == InternAll(InternAll(<<>>, Windows(firstSeq)), Windows(secondSeq))
       IN simGenes' = <<Gene(m, simSeq1), Gene(m, simSeq2)>>
    /\ UNCHANGED <<simSeq1, simSeq2, simFirst, simGarbage, simFwd, simBwd>>
    /\ UNCHANGED <<driverVars, ctorVars, khVars, wrVars, cdVars, histVars>>

SimCallForward ==
    /\ simGenes # <<>>
    /\ simFwd = NoScore
    /\ simFwd' = calculateSimilarity(simGenes[1], simGenes[2], simGarbage)
    /\ UNCHANGED <<simSeq1, simSeq2, simFirst, simGarbage, simGenes, simBwd>>
    /\ UNCHANGED <<driverVars, ctorVars, khVars, wrVars, cdVars, histVars>>

SimCallBackward ==
    /\ simGenes # <<>>
    /\ simBwd = NoScore
    /\ simBwd' = calculateSimilarity(simGenes[2], simGenes[1], simGarbage)
    /\ UNCHANGED <<simSeq1, simSeq2, simFirst, simGarbage, simGenes, simFwd>>
    /\ UNCHANGED <<driverVars, ctorVars, khVars, wrVars, cdVars, histVars>>

SimNext == SimCreateKmers \/ SimCallForward \/ SimCallBackward

vars == <<simVars, driverVars, ctorVars, khVars, wrVars, cdVars, histVars>>

SpecSim == SimInit /\ [][SimNext]_vars

(***************************************************************************)
(* Genome: createAndCalculateAllKmers, deleteAllKmers, file positions      *)
(***************************************************************************)
RECURSIVE InternGenome(_, _)
InternGenome(m, seqs) ==
    IF seqs = <<>> THEN m
    ELSE InternGenome(InternAll(m, Windows(Head(seqs))), Tail(seqs))

GenesOf(m, seqs) == [x \in 1..Len(seqs) |-> Gene(m, seqs[x])]

\* the genome's windows are interned once, every gene is keyed by the result
createAndCalculateAllKmers(seqs, m) ==
    CHOOSE g \in {[built |-> TRUE, genes |-> GenesOf(after, seqs)] :
                    after \in {InternGenome(m, seqs)}} : TRUE

RECURSIVE InternGenomes(_, _, _, _)
InternGenomes(m, gl, from, to) ==
    IF from > to THEN m
    ELSE InternGenomes(InternGenome(m, gl[from]), gl, from + 1, to)

RECURSIVE GenomeOffset(_, _)
GenomeOffset(gl, g) == IF g <= 1 THEN 0 ELSE Len(gl[g - 1]) + GenomeOffset(gl, g - 1)

\* Gene::getGeneFilePosition: the gene's place in the input
getGeneFilePosition(gl, g, index) == GenomeOffset(gl, g) + index

(***************************************************************************)
(* ThreadPool: FIFO queue, threadNumber workers                            *)
(***************************************************************************)
tasksCompleted == queue = <<>> /\ running = {}

\* a submitted closure: its kind, its captured row or column, its place in the loop
Task(kind, index, n) == [kind |-> kind, idx |-> index, n |-> n]

\* the submission loop of calculateRow and calculateRowSame: one task for each row
RowTasks(kind, n) == [x \in 1..n |-> Task(kind, x - 1, x)]

\* both preprocessor branches of the loop body active: every entry submitted twice
MatchTasksBothBranches(kind, m, o) ==
    [x \in 1..(2 * Len(o)) |-> Task(kind, o[((x - 1) % Len(o)) + 1], x)]

\* the submission loop of checkForBBH and checkForBBHSame: one task for each
\* entry of the match map, visited in the order o
MatchTasks(kind, m, o) == [x \in DOMAIN o |-> Task(kind, o[x], x)]

\* the orders in which the entries of the match map can be visited
Orders(S) ==
    {o \in [1..Cardinality(S) -> S] : \A a, b \in 1..Cardinality(S) : a # b => o[a] # o[b]}

(***************************************************************************)
(* The driver: Homology::calculateBidirectionalBestHit                     *)
(***************************************************************************)
\* the values of k a caller may construct Homology with
CtorKs == {x \in (-1)..K : x <= 0 \/ x = K}

\* the constructor's test widened to let k = 0 through
CtorRejectsNegative(k) == k < 0

\* line 226: if(k <= 0) throw
CtorRejects(k) == k <= 0

Init ==
    /\ genomes \in GenomeLists
    /\ mode \in BOOLEAN
    /\ threadNumber \in 1..MaxThreads
    /\ k_ \in CtorKs
    /\ pool_ = "null"
    /\ fw = "null"
    /\ pc = "new"
    /\ rowGenome = 1
    /\ colGenome = 1
    /\ mapper = <<>>
    /\ kmers = [g \in 1..Len(genomes) |-> NoKmers]
    /\ scores = <<>>
    /\ bestRows = <<>>
    /\ match = <<>>
    /\ queue = <<>>
    /\ running = {}
    /\ out = EmptyBag
    /\ edges = EmptyBag
    /\ SimIdle
    /\ KhIdle
    /\ WrIdle
    /\ CdIdle
    /\ compared = <<>>
    /\ written = EmptyBag

\* Homology::Homology(k, fileName, threadNumber), followed on success by the
\* entry of calculateBidirectionalBestHit(gc, mode)
Homology ==
    /\ pc = "new"
    /\ IF CtorRejects(k_)
       THEN /\ pc' = "ctorThrown"
            /\ UNCHANGED <<pool_, fw>>
       ELSE /\ pool_' = "started"
            /\ fw' = "open"
            /\ pc' = IF mode THEN "rowLoop" ELSE "begin"
    /\ UNCHANGED k_
    /\ UNCHANGED <<genomes, mode, threadNumber, rowGenome, colGenome, mapper, kmers,
                   scores, bestRows, match, queue, running, out, edges>>
    /\ UNCHANGED <<simVars, khVars, wrVars, cdVars, histVars>>

\* std::bad_alloc from the constructor of bestRows or scores (lines 395-397,
\* 469-470): nothing catches it, it leaves calculateBidirectionalBestHit
PairAllocationFails ==
    /\ pc \in {"same", "different"}
    /\ pc' = "thrown"
    /\ UNCHANGED <<genomes, mode, threadNumber, rowGenome, colGenome, mapper, kmers,
                   scores, bestRows, match, queue, running, out, edges>>
    /\ UNCHANGED <<simVars, ctorVars, khVars, wrVars, cdVars, histVars>>

\* eager mode, lines 356-361: every genome's k-mers through one mapper
EagerCreateAllKmers ==
    /\ pc = "begin"
    /\ kmers' = [g \in 1..Len(genomes) |->
                    createAndCalculateAllKmers(genomes[g],
                                               InternGenomes(<<>>, genomes, 1, g - 1))]
    /\ pc' = "rowLoop"
    /\ UNCHANGED <<genomes, mode, threadNumber, rowGenome, colGenome, mapper, scores,
                   bestRows, match, queue, running, out, edges>>
    /\ UNCHANGED <<simVars, ctorVars, khVars, wrVars, cdVars, histVars>>

\* the mapper and the row genome's k-mers as a row iteration starts
RowMapper(m, seqs) == InternGenome(<<>>, seqs)

RowGenomeBegin ==
    /\ pc = "rowLoop"
    /\ rowGenome <= Len(genomes)
    /\ IF mode
       THEN /\ mapper' = RowMapper(mapper, genomes[rowGenome])
            /\ kmers' = [kmers EXCEPT ![rowGenome] =
                            createAndCalculateAllKmers(genomes[rowGenome], <<>>)]
       ELSE UNCHANGED <<mapper, kmers>>
    /\ colGenome' = rowGenome
    /\ pc' = "same"
    /\ UNCHANGED <<genomes, mode, threadNumber, rowGenome, scores, bestRows, match,
                   queue, running, out, edges>>
    /\ UNCHANGED <<simVars, ctorVars, khVars, wrVars, cdVars, histVars>>

RowGenomeEnd ==
    /\ pc = "rowLoop"
    /\ rowGenome > Len(genomes)
    /\ pc' = "done"
    /\ UNCHANGED <<genomes, mode, threadNumber, rowGenome, colGenome, mapper, kmers,
                   scores, bestRows, match, queue, running, out, edges>>
    /\ UNCHANGED <<simVars, ctorVars, khVars, wrVars, cdVars, histVars>>

\* allocates the pair's containers and runs calculateRowSame up to its fence
calculateBidirectionalBestHitSameGenome ==
    /\ pc = "same"
    /\ bestRows' = BBHCandidatesContainer(Len(genomes[rowGenome]), Len(genomes[rowGenome]))
    /\ scores' = ScoresContainer(Len(genomes[rowGenome]), Len(genomes[rowGenome]))
    /\ queue' = queue \o RowTasks("rowSame", Len(genomes[rowGenome]))
    /\ edges' = EmptyBag
    /\ pc' = "rowFence"
    /\ UNCHANGED <<genomes, mode, threadNumber, rowGenome, colGenome, mapper, kmers,
                   match, running, out>>
    /\ UNCHANGED <<simVars, ctorVars, khVars, wrVars, cdVars>>
    /\ compared' = Append(compared, <<rowGenome, colGenome>>)
    /\ written' = EmptyBag

\* allocates the pair's containers and runs calculateRow up to its fence
calculateBidirectionalBestHitDifferentGenomes ==
    /\ pc = "different"
    /\ bestRows' = BBHCandidatesContainer(Len(genomes[rowGenome]), Len(genomes[colGenome]))
    /\ scores' = ScoresContainer(Len(genomes[rowGenome]), Len(genomes[colGenome]))
    /\ queue' = queue \o RowTasks("row", Len(genomes[rowGenome]))
    /\ edges' = EmptyBag
    /\ pc' = "rowFence"
    /\ UNCHANGED <<genomes, mode, threadNumber, rowGenome, colGenome, mapper, kmers,
                   match, running, out>>
    /\ UNCHANGED <<simVars, ctorVars, khVars, wrVars, cdVars>>
    /\ compared' = Append(compared, <<rowGenome, colGenome>>)
    /\ written' = EmptyBag

\* the row phase left without waiting for its tasks
RowFenceSkipped == TRUE

\* a polling loop that never sees the tasks completed
RowFenceNever == FALSE

\* the polling loop that ends calculateRow and calculateRowSame
RowFencePassed == tasksCompleted

calculateRowFence ==
    /\ pc = "rowFence"
    /\ RowFencePassed
    /\ pc' = "check"
    /\ UNCHANGED <<genomes, mode, threadNumber, rowGenome, colGenome, mapper, kmers,
                   scores, bestRows, match, queue, running, out, edges>>
    /\ UNCHANGED <<simVars, ctorVars, khVars, wrVars, cdVars, histVars>>

\* checkForBBH up to its fence: one task for every entry of the match map
checkForBBH ==
    /\ pc = "check"
    /\ colGenome # rowGenome
    /\ match' = getPossibleMatch(bestRows)
    /\ \E o \in Orders(DOMAIN match') :
          queue' = queue \o MatchTasks("col", match', o)
    /\ pc' = "colFence"
    /\ UNCHANGED <<genomes, mode, threadNumber, rowGenome, colGenome, mapper, kmers,
                   scores, bestRows, running, out, edges>>
    /\ UNCHANGED <<simVars, ctorVars, khVars, wrVars, cdVars, histVars>>

checkForBBHSame ==
    /\ pc = "check"
    /\ colGenome = rowGenome
    /\ match' = getPossibleMatch(bestRows)
    /\ \E o \in Orders(DOMAIN match') :
          queue' = queue \o MatchTasks("colSame", match', o)
    /\ pc' = "colFence"
    /\ UNCHANGED <<genomes, mode, threadNumber, rowGenome, colGenome, mapper, kmers,
                   scores, bestRows, running, out, edges>>
    /\ UNCHANGED <<simVars, ctorVars, khVars, wrVars, cdVars, histVars>>

\* the polling loop that ends checkForBBH and checkForBBHSame, delete matchp,
\* and the return of the pair function, which destroys scores and bestRows
\* the column phase left without waiting for its tasks
ColFenceSkipped == TRUE

\* the polling loop that ends checkForBBH and checkForBBHSame (lines 715-717,
\* 855-857)
ColFencePassed == tasksCompleted

\* the fence, then delete matchp and the return of the pair function, where
\* scores and bestRows go out of scope
checkForBBHFence ==
    /\ pc = "colFence"
    /\ ColFencePassed
    /\ match' = <<>>
    /\ scores' = <<>>
    /\ bestRows' = <<>>
    /\ pc' = "pairDone"
    /\ UNCHANGED <<genomes, mode, threadNumber, rowGenome, colGenome, mapper, kmers,
                   queue, running, out, edges>>
    /\ UNCHANGED <<simVars, ctorVars, khVars, wrVars, cdVars, histVars>>

\* the column loop started at the row genome itself
FirstColGenomeSelf(row) == row

\* lines 342-343 and 369-370: colGenome = rowGenome; ++colGenome
FirstColGenome(row) == row + 1

\* after the same-genome comparison the column genome is the next genome
AfterSameGenome ==
    /\ pc = "pairDone"
    /\ colGenome = rowGenome
    /\ colGenome' = FirstColGenome(rowGenome)
    /\ pc' = "colLoop"
    /\ UNCHANGED <<genomes, mode, threadNumber, rowGenome, mapper, kmers, scores,
                   bestRows, match, queue, running, out, edges>>
    /\ UNCHANGED <<simVars, ctorVars, khVars, wrVars, cdVars, histVars>>

\* the column genome's k-mers kept until the row genome is done
ColReleaseNever(md) == FALSE

\* the column genome's k-mers released after its comparison in eager mode too
ColReleaseAlways(md) == TRUE

\* line 348: lazy mode (md) releases the column genome's k-mers after its
\* comparison, eager mode has no such call (line 374)
ColRelease(md) == md

AfterDifferentGenomes ==
    /\ pc = "pairDone"
    /\ colGenome # rowGenome
    /\ kmers' = IF ColRelease(mode) THEN [kmers EXCEPT ![colGenome] = NoKmers] ELSE kmers
    /\ colGenome' = colGenome + 1
    /\ pc' = "colLoop"
    /\ UNCHANGED <<genomes, mode, threadNumber, rowGenome, mapper, scores,
                   bestRows, match, queue, running, out, edges>>
    /\ UNCHANGED <<simVars, ctorVars, khVars, wrVars, cdVars, histVars>>

\* a mapper of its own for the column genome
ColMapperFresh(m) == <<>>

\* the mapper the column genome's k-mers are built with in lazy mode
ColMapper(m) == m

ColGenomeBegin ==
    /\ pc = "colLoop"
    /\ colGenome <= Len(genomes)
    /\ IF mode
       THEN /\ mapper' = InternGenome(ColMapper(mapper), genomes[colGenome])
            /\ kmers' = [kmers EXCEPT ![colGenome] =
                            createAndCalculateAllKmers(genomes[colGenome], ColMapper(mapper))]
       ELSE UNCHANGED <<mapper, kmers>>
    /\ pc' = "different"
    /\ UNCHANGED <<genomes, mode, threadNumber, rowGenome, colGenome, scores, bestRows,
                   match, queue, running, out, edges>>
    /\ UNCHANGED <<simVars, ctorVars, khVars, wrVars, cdVars, histVars>>

\* the row genome's k-mers are released and the next row genome is taken
ColGenomeEnd ==
    /\ pc = "colLoop"
    /\ colGenome > Len(genomes)
    /\ kmers' = [kmers EXCEPT ![rowGenome] = NoKmers]
    /\ mapper' = IF mode THEN <<>> ELSE mapper
    /\ rowGenome' = rowGenome + 1
    /\ pc' = "rowLoop"
    /\ UNCHANGED <<genomes, mode, threadNumber, colGenome, scores, bestRows, match,
                   queue, running, out, edges>>
    /\ UNCHANGED <<simVars, ctorVars, khVars, wrVars, cdVars, histVars>>

(***************************************************************************)
(* The workers                                                             *)
(***************************************************************************)
WorkerTake ==
    /\ queue # <<>>
    /\ Cardinality(running) < threadNumber
    /\ running' = running \cup {Head(queue)}
    /\ queue' = Tail(queue)
    /\ UNCHANGED <<genomes, mode, threadNumber, pc, rowGenome, colGenome, mapper, kmers,
                   scores, bestRows, match, out, edges>>
    /\ UNCHANGED <<simVars, ctorVars, khVars, wrVars, cdVars, histVars>>

RunCalculateRow ==
    \E t \in running, u \in 0..MaxGarbage :
        /\ t.kind = "row"
        /\ LET sb == calculateRowTask(kmers[rowGenome].genes, kmers[colGenome].genes,
                                      t.idx, [scores |-> scores, bestRows |-> bestRows, written |-> written], u)
           IN /\ scores' = sb.scores
              /\ bestRows' = sb.bestRows
              /\ written' = sb.written
        /\ running' = running \ {t}
        /\ UNCHANGED <<genomes, mode, threadNumber, pc, rowGenome, colGenome, mapper,
                       kmers, match, queue, out, edges>>
        /\ UNCHANGED <<simVars, ctorVars, khVars, wrVars, cdVars, compared>>

RunCalculateRowSame ==
    \E t \in running, u \in 0..MaxGarbage :
        /\ t.kind = "rowSame"
        /\ LET sb == calculateRowSameTask(kmers[rowGenome].genes, t.idx,
                                          [scores |-> scores, bestRows |-> bestRows, written |-> written], u)
           IN /\ scores' = sb.scores
              /\ bestRows' = sb.bestRows
              /\ written' = sb.written
        /\ running' = running \ {t}
        /\ UNCHANGED <<genomes, mode, threadNumber, pc, rowGenome, colGenome, mapper,
                       kmers, match, queue, out, edges>>
        /\ UNCHANGED <<simVars, ctorVars, khVars, wrVars, cdVars, compared>>

\* a column task that takes its column out of the candidate lists it visited
ColumnTaskConsumesCandidates(sc, cands, colGeneId) ==
    [scores |-> sc,
     bestRows |-> [r \in DOMAIN cands |-> [cands[r] EXCEPT !.list = @ \ {colGeneId}]]]

\* the containers as a column task leaves them: it calls only getScoreAt on
\* the matrix and getBestScoreForCandidate on the candidates
ColumnTaskContainers(sc, cands, colGeneId) == [scores |-> sc, bestRows |-> cands]

\* the line fwRef.write appends for an edge
Line(e) ==
    <<getGeneFilePosition(genomes, rowGenome, e.row),
      getGeneFilePosition(genomes, colGenome, e.col),
      to_string(e.score)>>

RunCheckForBBH ==
    \E t \in running :
        /\ t.kind = "col"
        /\ LET es == checkForBBHTask(scores, bestRows, t.idx)
               sb == ColumnTaskContainers(scores, bestRows, t.idx)
           IN /\ edges' = edges (+) SetToBag(es)
              /\ out' = out (+) SetToBag({Line(e) : e \in es})
              /\ scores' = sb.scores
              /\ bestRows' = sb.bestRows
        /\ running' = running \ {t}
        /\ UNCHANGED <<genomes, mode, threadNumber, pc, rowGenome, colGenome, mapper,
                       kmers, match, queue>>
        /\ UNCHANGED <<simVars, ctorVars, khVars, wrVars, cdVars, histVars>>

RunCheckForBBHSame ==
    \E t \in running :
        /\ t.kind = "colSame"
        /\ LET es == checkForBBHSameTask(scores, bestRows, t.idx)
               sb == ColumnTaskContainers(scores, bestRows, t.idx)
           IN /\ edges' = edges (+) SetToBag(es)
              /\ out' = out (+) SetToBag({Line(e) : e \in es})
              /\ scores' = sb.scores
              /\ bestRows' = sb.bestRows
        /\ running' = running \ {t}
        /\ UNCHANGED <<genomes, mode, threadNumber, pc, rowGenome, colGenome, mapper,
                       kmers, match, queue>>
        /\ UNCHANGED <<simVars, ctorVars, khVars, wrVars, cdVars, histVars>>

Next ==
    \/ Homology
    \/ PairAllocationFails
    \/ EagerCreateAllKmers
    \/ RowGenomeBegin
    \/ RowGenomeEnd
    \/ calculateBidirectionalBestHitSameGenome
    \/ calculateBidirectionalBestHitDifferentGenomes
    \/ calculateRowFence
    \/ checkForBBH
    \/ checkForBBHSame
    \/ checkForBBHFence
    \/ AfterSameGenome
    \/ AfterDifferentGenomes
    \/ ColGenomeBegin
    \/ ColGenomeEnd
    \/ WorkerTake
    \/ RunCalculateRow
    \/ RunCalculateRowSame
    \/ RunCheckForBBH
    \/ RunCheckForBBHSame

Spec == Init /\ [][Next]_vars

\* the steps of the thread that runs the driver, its polling loops included
DriverStep ==
    \/ Homology
    \/ EagerCreateAllKmers
    \/ RowGenomeBegin
    \/ RowGenomeEnd
    \/ calculateBidirectionalBestHitSameGenome
    \/ calculateBidirectionalBestHitDifferentGenomes
    \/ calculateRowFence
    \/ checkForBBH
    \/ checkForBBHSame
    \/ checkForBBHFence
    \/ AfterSameGenome
    \/ AfterDifferentGenomes
    \/ ColGenomeBegin
    \/ ColGenomeEnd

\* the steps of the pool's worker threads
WorkerStep ==
    \/ WorkerTake
    \/ RunCalculateRow
    \/ RunCalculateRowSame
    \/ RunCheckForBBH
    \/ RunCheckForBBHSame

RECURSIVE TotalGenes(_)
TotalGenes(gl) == IF gl = <<>> THEN 0 ELSE Len(Head(gl)) + TotalGenes(Tail(gl))

\* the runs followed to their end: the genome lists one genome and one gene
\* short of the largest
FairInit ==
    /\ Init
    /\ Len(genomes) < MaxGenomes
    /\ TotalGenes(genomes) < MaxTotalGenes

\* the driver thread and the workers are scheduled fairly
FairSpec == FairInit /\ [][Next]_vars /\ WF_vars(DriverStep) /\ WF_vars(WorkerStep)

(***************************************************************************)
(* The run with one worker taking the tasks in submission order, as a      *)
(* function of the genome list and the mode                                *)
(***************************************************************************)
RECURSIVE RowPhase(_, _, _, _, _)
RowPhase(rowGenes, colGenes, same, row, sb) ==
    IF row >= Len(rowGenes) THEN sb
    ELSE RowPhase(rowGenes, colGenes, same, row + 1,
                  IF same THEN calculateRowSameTask(rowGenes, row, sb, 0)
                  ELSE calculateRowTask(rowGenes, colGenes, row, sb, 0))

PairEdges(rowGenes, colGenes, same) ==
    LET sb == RowPhase(rowGenes, colGenes, same, 0,
                       [scores |-> ScoresContainer(Len(rowGenes), Len(colGenes)),
                        bestRows |-> BBHCandidatesContainer(Len(rowGenes), Len(colGenes)),
                        written |-> EmptyBag])
    IN UNION {IF same THEN checkForBBHSameTask(sb.scores, sb.bestRows, c)
              ELSE checkForBBHTask(sb.scores, sb.bestRows, c) :
              c \in DOMAIN getPossibleMatch(sb.bestRows)}

\* the mapper a comparison of genomes i and j finds: in lazy mode (md) the one
\* created for row genome i, in eager mode the one that saw every genome
PairMapper(gl, md, i, j) ==
    IF md THEN InternGenomes(<<>>, gl, i, j) ELSE InternGenomes(<<>>, gl, 1, Len(gl))

PairLines(gl, md, i, j) ==
    LET m == PairMapper(gl, md, i, j)
    IN {<<getGeneFilePosition(gl, i, e.row), getGeneFilePosition(gl, j, e.col),
          to_string(e.score)>> :
        e \in PairEdges(GenesOf(m, gl[i]), GenesOf(m, gl[j]), i = j)}

RECURSIVE SequentialOutput(_, _, _, _)
SequentialOutput(gl, md, i, j) ==
    IF i > Len(gl) THEN EmptyBag
    ELSE IF j > Len(gl) THEN SequentialOutput(gl, md, i + 1, i + 1)
    ELSE SetToBag(PairLines(gl, md, i, j)) (+) SequentialOutput(gl, md, i, j + 1)

\* the similarity of genes a and b of the genome under comparison with itself
SameGenomeSimilarity(a, b) ==
    calculateSimilarity(kmers[rowGenome].genes[a + 1], kmers[rowGenome].genes[b + 1], 0)

RowBest(sc, r, c) == \A c2 \in DOMAIN sc[r] : ~ScoreLt(sc[r][c], sc[r][c2])
ColBest(sc, r, c) == \A r2 \in DOMAIN sc : ~ScoreLt(sc[r][c], sc[r2][c])

\* the pairs that are best for their row and for their column, with a positive score
MutualBest(sc) ==
    {[row |-> r, col |-> c, score |-> sc[r][c]] :
        <<r, c>> \in {rc \in UNION {{<<r, c>> : c \in DOMAIN sc[r]} : r \in DOMAIN sc} :
                        /\ ScoreLt(Zero, sc[rc[1]][rc[2]])
                        /\ RowBest(sc, rc[1], rc[2])
                        /\ ColBest(sc, rc[1], rc[2])}}

(***************************************************************************)
(* kmers::KmersHandler (include/KmersHandler.hh).  A Kmer object is the    *)
(* sequence of the window indexes it was given; the heap holds every Kmer  *)
(* created, currentKmers and dictionary_ hold positions in the heap.       *)
(***************************************************************************)
SizeModulus == 2 ^ SizeBits

\* a std::size_t value
SizeT(x) == x % SizeModulus

\* the count of windows the loop stops at, with the window count one short
KmersNumOneShort(length, k) == SizeT(length - k)

\* line 75: mapKeyType kmersNum = alphabet_.length() - k_ + 1
KmersNumOf(length, k) == SizeT(length - k + 1)

\* std::string::substr(pos, len): throws std::out_of_range when pos > size()
SubstrThrows(str, pos) == pos > Len(str)

substr(str, pos, len) ==
    SubSeq(str, pos + 1, IF pos + len < Len(str) THEN pos + len ELSE Len(str))

\* std::unordered_map::insert: an existing key keeps its value
MapInsert(map, key, value) ==
    IF key \in DOMAIN map THEN map
    ELSE [x \in (DOMAIN map) \cup {key} |-> IF x = key THEN value ELSE map[x]]

\* Kmer(i), Kmer::addIndex(i), Kmer::getMultiplicity()
Kmer(firstIndex) == <<firstIndex>>
addIndex(kmer, index) == Append(kmer, index)
getMultiplicity(kmer) == Len(kmer)

\* the dictionary as a caller reads it: each key with its Kmer's multiplicity
DictionaryView(dict, heap) == [f \in DOMAIN dict |-> getMultiplicity(heap[dict[f]])]

\* a call that looks its windows up among the Kmers of the dictionary
CurrentKmersOfDictionary(dict, str, k) ==
    [ss \in {substr(str, f, k) : f \in DOMAIN dict} |->
        dict[CHOOSE f \in DOMAIN dict : substr(str, f, k) = ss]]

\* line 73: currentKmers = new std::unordered_map<std::string, Kmer*>()
NewCurrentKmers(dict, str, k) == <<>>

\* the windows calculateKmersString counts, and how often each occurs
StringWindows(str, k) == {substr(str, i, k) : i \in 0..(KmersNumOf(Len(str), k) - 1)}
StringMultiplicity(str, k, ss) ==
    Cardinality({i \in 0..(KmersNumOf(Len(str), k) - 1) : substr(str, i, k) = ss})

\* lines 163-171: "ss(multiplicity)" for each entry in the map's iteration
\* order o, with ", " between two entries
RECURSIVE KmersString(_, _, _, _)
KmersString(str, k, o, x) ==
    IF x > Len(o) THEN <<>>
    ELSE o[x] \o <<"(", ToString(StringMultiplicity(str, k, o[x])), ")">>
         \o (IF x < Len(o) THEN <<", ">> ELSE <<>>)
         \o KmersString(str, k, o, x + 1)

KhInit ==
    /\ handlerK \in 1..(K + 1)
    /\ alphabet_ \in SeqsUpTo(MaxLen)
    /\ dictionary_ = <<>>
    /\ khHeap = <<>>
    /\ khPc = "constructed"
    /\ khI = 0
    /\ kmersNum = 0
    /\ currentKmers = <<>>
    /\ khCalls = 0
    /\ khString = <<>>
    /\ khFirst = <<>>
    /\ DriverIdle
    /\ SimIdle
    /\ WrIdle
    /\ CdIdle

\* calculateKmers up to its loop: lines 73-75
calculateKmersBegin ==
    /\ khPc \in {"constructed", "returned"}
    /\ khCalls < MaxCalls
    /\ khCalls' = khCalls + 1
    /\ currentKmers' = NewCurrentKmers(dictionary_, alphabet_, handlerK)
    /\ kmersNum' = KmersNumOf(Len(alphabet_), handlerK)
    /\ khI' = 0
    /\ khPc' = "loop"
    /\ UNCHANGED <<handlerK, alphabet_, dictionary_, khHeap, khString, khFirst>>
    /\ UNCHANGED <<simVars, driverVars, ctorVars, wrVars, cdVars, histVars>>

\* one pass of the loop, lines 81-109
calculateKmersStep ==
    /\ khPc = "loop"
    /\ khI < kmersNum
    /\ ~SubstrThrows(alphabet_, khI)
    /\ LET ss == substr(alphabet_, khI, handlerK)
       IN IF ss \notin DOMAIN currentKmers
          THEN /\ khHeap' = Append(khHeap, Kmer(khI))
               /\ currentKmers' = MapInsert(currentKmers, ss, Len(khHeap) + 1)
               /\ dictionary_' = MapInsert(dictionary_, khI, Len(khHeap) + 1)
          ELSE /\ khHeap' = [khHeap EXCEPT ![currentKmers[ss]] = addIndex(@, khI)]
               /\ UNCHANGED <<currentKmers, dictionary_>>
    /\ khI' = SizeT(khI + 1)
    /\ UNCHANGED <<handlerK, alphabet_, khPc, kmersNum, khCalls, khString, khFirst>>
    /\ UNCHANGED <<simVars, driverVars, ctorVars, wrVars, cdVars, histVars>>

\* line 82 throws std::out_of_range: the call is left, currentKmers is not deleted
calculateKmersThrows ==
    /\ khPc = "loop"
    /\ khI < kmersNum
    /\ SubstrThrows(alphabet_, khI)
    /\ khPc' = "thrown"
    /\ UNCHANGED <<handlerK, alphabet_, dictionary_, khHeap, khI, kmersNum, currentKmers,
                   khCalls, khString, khFirst>>
    /\ UNCHANGED <<simVars, driverVars, ctorVars, wrVars, cdVars, histVars>>

\* the loop is over: delete currentKmers (line 121) and return
calculateKmersEnd ==
    /\ khPc = "loop"
    /\ khI >= kmersNum
    /\ currentKmers' = <<>>
    /\ khPc' = "returned"
    /\ khFirst' = IF khCalls = 1 THEN DictionaryView(dictionary_, khHeap) ELSE khFirst
    /\ UNCHANGED <<handlerK, alphabet_, dictionary_, khHeap, khI, kmersNum, khCalls,
                   khString>>
    /\ UNCHANGED <<simVars, driverVars, ctorVars, wrVars, cdVars, histVars>>

\* calculateKmersString() const, lines 125-183: counts the windows in a map of
\* its own and returns them as text, or is left by the std::out_of_range of
\* line 140
calculateKmersString ==
    /\ khPc \in {"constructed", "returned"}
    /\ IF \E i \in 0..(Len(alphabet_) + 1) :
              i < KmersNumOf(Len(alphabet_), handlerK) /\ SubstrThrows(alphabet_, i)
       THEN /\ khPc' = "thrown"
            /\ UNCHANGED khString
       ELSE /\ \E o \in Orders(StringWindows(alphabet_, handlerK)) :
                  khString' = KmersString(alphabet_, handlerK, o, 1)
            /\ UNCHANGED khPc
    /\ UNCHANGED <<handlerK, alphabet_, dictionary_, khHeap, khI, kmersNum, currentKmers,
                   khCalls, khFirst>>
    /\ UNCHANGED <<simVars, driverVars, ctorVars, wrVars, cdVars, histVars>>

KhNext ==
    \/ calculateKmersBegin
    \/ calculateKmersStep
    \/ calculateKmersThrows
    \/ calculateKmersEnd
    \/ calculateKmersString

SpecKmers == KhInit /\ [][KhNext]_vars

(***************************************************************************)
(* The column tasks' writes (lines 691-705, 834-849) through the           *)
(* FileWriter (utilities/FileWriter.hh): write(line, stream) takes the     *)
(* writer's mutex, appends the line and a newline, and releases the mutex. *)
(* The stream is a sequence of tokens, one step of a write appends one.    *)
(***************************************************************************)
\* the string a task hands to write for one edge: row position, column
\* position and score, joined by commas
LineText(l) == <<ToString(l[1]), ",", ToString(l[2]), ",", ToString(l[3])>>

\* the lines the task of the column at position col writes for its best rows
TaskLines(rows, col, score) == {<<r, col, score>> : r \in rows}

WrInit ==
    /\ \E n \in 1..MaxThreads :
          \E rowsOf \in [1..n -> SUBSET (0..(MaxLines - 1))] :
             \E score \in {Million \div 2, Million} :
                wrTasks = [t \in 1..n |-> TaskLines(rowsOf[t], t - 1, score)]
    /\ wrPending = wrTasks
    /\ wrCurrent = [t \in DOMAIN wrTasks |-> <<>>]
    /\ wrOwner = 0
    /\ outStream_ = <<>>
    /\ DriverIdle
    /\ SimIdle
    /\ KhIdle
    /\ CdIdle

\* a write that does not wait for the mutex
WriteEntersUnlocked(owner) == TRUE

\* FileWriter::write enters once the mutex is free
WriteEnters(owner) == owner = 0

\* a task takes the next of its best rows and calls fwRef.write with the line
TaskWrite(t) ==
    /\ wrCurrent[t] = <<>>
    /\ wrPending[t] # {}
    /\ WriteEnters(wrOwner)
    /\ \E l \in wrPending[t] :
          /\ wrPending' = [wrPending EXCEPT ![t] = @ \ {l}]
          /\ wrCurrent' = [wrCurrent EXCEPT ![t] = LineText(l) \o <<"\n">>]
    /\ wrOwner' = t
    /\ UNCHANGED <<wrTasks, outStream_>>
    /\ UNCHANGED <<simVars, driverVars, ctorVars, khVars, cdVars, histVars>>

\* the write in progress appends its next token; after the newline it releases
\* the mutex and returns
WriteAppend(t) ==
    /\ wrCurrent[t] # <<>>
    /\ outStream_' = Append(outStream_, Head(wrCurrent[t]))
    /\ wrCurrent' = [wrCurrent EXCEPT ![t] = Tail(@)]
    /\ wrOwner' = IF Tail(wrCurrent[t]) = <<>> THEN 0 ELSE wrOwner
    /\ UNCHANGED <<wrTasks, wrPending>>
    /\ UNCHANGED <<simVars, driverVars, ctorVars, khVars, cdVars, histVars>>

WrNext ==
    \/ \E t \in DOMAIN wrTasks : TaskWrite(t)
    \/ \E t \in DOMAIN wrTasks : WriteAppend(t)

SpecWrite == WrInit /\ [][WrNext]_vars

(***************************************************************************)
(* Claims                                                                  *)
(***************************************************************************)

\* C1: while the column tasks of a genome pair run, in any interleaving, every
\* edge (r,c,s) written so far has s equal to matrix[r,c], equal to
\* candidates[r].best, and no cell of column c exceeds s; its line is in the output.
C1_EdgeIsRowAndColumnBest ==
    pc = "colFence" =>
        \A e \in BagToSet(edges) :
            /\ ScoreEq(e.score, getScoreAt(scores, e.row, e.col))
            /\ ScoreEq(e.score, getBestScoreForCandidate(bestRows, e.row))
            /\ \A r \in DOMAIN scores : ~ScoreLt(e.score, getScoreAt(scores, r, e.col))
            /\ BagIn(Line(e), out)

C1_Witness ==
    /\ pc = "colFence"
    /\ colGenome # rowGenome
    /\ running # {}
    /\ edges # EmptyBag

\* C2: in a different-genome comparison only pairs with a positive score that is
\* the maximum of its row and of its column are written, and once all column
\* tasks have finished each such pair has been written exactly once.
C2_MutualBestExactlyOnce ==
    (pc = "colFence" /\ colGenome # rowGenome) =>
        /\ edges \sqsubseteq SetToBag(MutualBest(scores))
        /\ tasksCompleted => edges = SetToBag(MutualBest(scores))

C2_Witness ==
    /\ pc = "colFence"
    /\ colGenome # rowGenome
    /\ tasksCompleted
    /\ \E e1, e2 \in BagToSet(edges) : e1.row = e2.row /\ e1.col # e2.col

\* C3: no edge with score 0 is ever written, in checkForBBH or checkForBBHSame.
C3_NoZeroScoreEdge ==
    /\ \A e \in BagToSet(edges) : ScoreLt(Zero, e.score)
    /\ \A l \in BagToSet(out) : l[3] > 0

C3_Witness ==
    /\ pc = "colFence"
    /\ tasksCompleted
    /\ edges # EmptyBag
    /\ \E r \in DOMAIN scores : \E c \in DOMAIN scores[r] :
          /\ colGenome = rowGenome => c > r
          /\ ScoreEq(getScoreAt(scores, r, c), Zero)
          /\ bestRows[r].list = {}

\* C4: in a same-genome comparison no written edge has row = col, and each
\* unordered pair of genes is written at most once (not both ways, not twice).
C4_SameGenomeOncePerPair ==
    (colGenome = rowGenome /\ pc \in {"colFence", "pairDone"}) =>
        \A e \in BagToSet(edges) :
            /\ e.row # e.col
            /\ CopiesIn(e, edges) = 1
            /\ CopiesIn(Line(e), out) = 1
            /\ \A f \in BagToSet(edges) :
                  {f.row, f.col} = {e.row, e.col} => f = e

C4_Witness ==
    /\ colGenome = rowGenome
    /\ pc = "pairDone"
    /\ Cardinality(BagToSet(edges)) >= 2

\* C5: in a same-genome comparison every written edge (a,b,s) has s at least
\* similarity(a,x) for every other gene x and at least similarity(b,y) for every
\* other gene y of the genome.
C5_SameGenomeTrueBBH ==
    (colGenome = rowGenome /\ pc = "colFence") =>
        \A e \in BagToSet(edges) :
            \A x \in DOMAIN scores :
                /\ x # e.row => ~ScoreLt(e.score, SameGenomeSimilarity(e.row, x))
                /\ x # e.col => ~ScoreLt(e.score, SameGenomeSimilarity(e.col, x))

\* C6: a finished run has written the multiset of lines that the other mode
\* (eager for a lazy run, lazy for an eager run) writes for the same genome list.
C6_LazyEagerSameEdges ==
    pc = "done" => out = SequentialOutput(genomes, ~mode, 1, 1)

\* a finished run with output in which some genome's keys differ between the modes
C6_Witness ==
    /\ pc = "done"
    /\ out # EmptyBag
    /\ \E i \in 1..Len(genomes) :
          /\ GenesOf(PairMapper(genomes, TRUE, i, i), genomes[i])
               # GenesOf(PairMapper(genomes, FALSE, i, i), genomes[i])
          /\ PairLines(genomes, TRUE, i, i) # {}

\* C7: the multiset of lines of a finished run is a function of the genome list
\* alone: whatever the interleaving of the workers and their number, it is the
\* output of the run with one worker.
C7_OutputDeterministic ==
    pc = "done" => out = SequentialOutput(genomes, mode, 1, 1)

C7_Witness ==
    /\ pc = "done"
    /\ threadNumber > 1
    /\ Cardinality(BagToSet(out)) >= 2

\* C8: calculateSimilarity(g, g) is exactly 1 when g's k-mer container is not empty.
C8_SelfSimilarityIsOne ==
    (simGenes # <<>> /\ simFwd # NoScore /\ simSeq1 = simSeq2 /\ simGenes[1].kc # <<>>) =>
        simFwd = One

C8_Witness ==
    /\ simGenes # <<>>
    /\ simSeq1 = simSeq2
    /\ Len(simGenes[1].kc) >= 2
    /\ simFwd = One

\* C9: calculateSimilarity(g1, g2) == calculateSimilarity(g2, g1) for every pair of genes.
C9_Symmetric ==
    (simFwd # NoScore /\ simBwd # NoScore) => ScoreEq(simFwd, simBwd)

\* the terms of the call calculateSimilarity(gene1, gene2)
SimTermsForward ==
    SimilarityTerms(ShortestContainer(simGenes[1], simGenes[2]),
                    LongestContainer(simGenes[1], simGenes[2]), simGarbage)

\* C10: the value returned is a number s with 0 <= s <= 1; the numerator never
\* exceeds the divisor and neither unmatched term is below 0.
C10_ScoreInUnitInterval ==
    simFwd # NoScore =>
        /\ ScoreLe(Zero, simFwd)
        /\ ScoreLe(simFwd, One)
        /\ SimTermsForward.unmatchedShort >= 0
        /\ SimTermsForward.unmatchedLong >= 0
        /\ SimTermsForward.num <=
             SimTermsForward.den + SimTermsForward.unmatchedShort + SimTermsForward.unmatchedLong

\* the keys of a container
KeysOf(kc) == {kc[p][1] : p \in 1..Len(kc)}

\* C11: when the two genes' containers have no key in common, calculateSimilarity
\* returns 0.
C11_DisjointIsZero ==
    (simFwd # NoScore /\ KeysOf(simGenes[1].kc) \cap KeysOf(simGenes[2].kc) = {}) =>
        ScoreEq(simFwd, Zero)

(***************************************************************************)
(* The weighted Jaccard of two sequences taken on their windows, without   *)
(* keys, containers or cursors: sum of min over sum of max of the two      *)
(* multiplicities of every window of either sequence.                      *)
(***************************************************************************)
WindowSet(seq) == {Windows(seq)[i] : i \in 1..Len(Windows(seq))}
WindowCount(seq, w) == Cardinality({i \in 1..Len(Windows(seq)) : Windows(seq)[i] = w})

RECURSIVE SumMin(_, _, _)
SumMin(a, b, ws) ==
    IF ws = {} THEN 0
    ELSE LET w == CHOOSE x \in ws : TRUE
             ca == WindowCount(a, w)
             cb == WindowCount(b, w)
         IN (IF ca < cb THEN ca ELSE cb) + SumMin(a, b, ws \ {w})

RECURSIVE SumMax(_, _, _)
SumMax(a, b, ws) ==
    IF ws = {} THEN 0
    ELSE LET w == CHOOSE x \in ws : TRUE
             ca == WindowCount(a, w)
             cb == WindowCount(b, w)
         IN (IF ca < cb THEN cb ELSE ca) + SumMax(a, b, ws \ {w})

JaccardMin(a, b) == SumMin(a, b, WindowSet(a) \cup WindowSet(b))
JaccardMax(a, b) == SumMax(a, b, WindowSet(a) \cup WindowSet(b))

C13_LengthFilterExact ==
    (simFwd # NoScore /\ (2 * Len(simSeq1) < Len(simSeq2) \/ 2 * Len(simSeq2) < Len(simSeq1))) =>
        simFwd = Zero

\* C14: when the divisor den + unmatchedShort + unmatchedLong is 0 the value
\* returned is the score 0.
C14_ZeroDivisorIsZero ==
    (simFwd # NoScore /\ ~LengthFilter(simGenes[1], simGenes[2])
       /\ SimTermsForward.den + SimTermsForward.unmatchedShort
            + SimTermsForward.unmatchedLong = 0) =>
        ScoreEq(simFwd, Zero)

\* C17: constructing Homology with k <= 0 throws before the pool is created or
\* started and before the output file is opened; nothing is queued, run,
\* built or written afterwards.
C17_BadKFailsBeforePool ==
    (k_ <= 0 /\ pc # "new") =>
        /\ pc = "ctorThrown"
        /\ pool_ = "null"
        /\ fw = "null"
        /\ queue = <<>>
        /\ running = {}
        /\ out = EmptyBag
        /\ \A g \in DOMAIN kmers : ~kmers[g].built

C17_Witness ==
    /\ pc = "ctorThrown"
    /\ k_ = 0
    /\ genomes # <<>>
    /\ pool_ = "null"

\* the genomes whose k-mer containers are built
BuiltGenomes == {g \in DOMAIN kmers : kmers[g].built}

\* C19: in lazy mode at most two genomes have their k-mer containers built at
\* any point of calculateBidirectionalBestHit, and they are the current row
\* genome and the current column genome.
C19_LazyAtMostTwoBuilt ==
    mode =>
        /\ Cardinality(BuiltGenomes) <= 2
        /\ BuiltGenomes \subseteq {rowGenome, colGenome}

\* the third genome is the column genome after the second one was compared and released
C19_Witness ==
    /\ mode
    /\ Len(genomes) >= 3
    /\ rowGenome = 1
    /\ colGenome = 3
    /\ pc = "colFence"
    /\ BuiltGenomes = {1, 3}

\* C20: when a genome-pair comparison fails with an error, no genome still holds
\* k-mer containers once the error has left calculateBidirectionalBestHit, in
\* lazy and in eager mode.
C20_ReleasedOnError ==
    pc = "thrown" => BuiltGenomes = {}

\* the windows of length k of the handler's sequence, by their first index
KhWindowStarts == 0..(Len(alphabet_) - handlerK)
KhWindow(p) == substr(alphabet_, p, handlerK)

RECURSIVE KhSumMultiplicity(_)
KhSumMultiplicity(keys) ==
    IF keys = {} THEN 0
    ELSE LET f == CHOOSE x \in keys : TRUE
         IN getMultiplicity(khHeap[dictionary_[f]]) + KhSumMultiplicity(keys \ {f})

\* C15: for a sequence of length L >= k, calculateKmers returns with a dictionary
\* that holds exactly one entry for each distinct substring of length k, every
\* entry's multiplicity is > 0 and is the number of windows equal to its
\* substring, and the multiplicities add up to L - k + 1.
C15_DictionaryCountsWindows ==
    Len(alphabet_) >= handlerK =>
        /\ khPc # "thrown"
        /\ khPc = "returned" =>
              /\ {KhWindow(f) : f \in DOMAIN dictionary_} = {KhWindow(p) : p \in KhWindowStarts}
              /\ \A f, g \in DOMAIN dictionary_ : KhWindow(f) = KhWindow(g) => f = g
              /\ \A f \in DOMAIN dictionary_ :
                    /\ f \in KhWindowStarts
                    /\ getMultiplicity(khHeap[dictionary_[f]]) > 0
                    /\ getMultiplicity(khHeap[dictionary_[f]]) =
                         Cardinality({p \in KhWindowStarts : KhWindow(p) = KhWindow(f)})
              /\ KhSumMultiplicity(DOMAIN dictionary_) = Len(alphabet_) - handlerK + 1

\* a repeated, overlapping window next to another one
C15_Witness ==
    /\ khPc = "returned"
    /\ khCalls = 1
    /\ Len(alphabet_) > handlerK
    /\ Cardinality(DOMAIN dictionary_) >= 2
    /\ \E f \in DOMAIN dictionary_ :
          /\ getMultiplicity(khHeap[dictionary_[f]]) >= 2
          /\ khHeap[dictionary_[f]][2] = f + 1

\* C16: for a sequence of length L < k (L = 0 and L < k - 1 included) the
\* construction ends normally with no entry recorded: the dictionary stays
\* empty and no Kmer is created.
C16_ShortSequenceEmpty ==
    Len(alphabet_) < handlerK =>
        /\ khPc # "thrown"
        /\ DOMAIN dictionary_ = {}
        /\ khHeap = <<>>

\* the stream cut at its newlines: the whole lines and the unfinished rest
RECURSIVE SplitLines(_, _, _)
SplitLines(stream, whole, rest) ==
    IF stream = <<>> THEN [whole |-> whole, rest |-> rest]
    ELSE IF Head(stream) = "\n"
         THEN SplitLines(Tail(stream), Append(whole, rest), <<>>)
         ELSE SplitLines(Tail(stream), whole, Append(rest, Head(stream)))

StreamLines == SplitLines(outStream_, <<>>, <<>>)

SeqToBag(q) == [x \in {q[p] : p \in DOMAIN q} |-> Cardinality({p \in DOMAIN q : q[p] = x})]

\* the lines handed to write so far, and all lines the tasks are to write
LinesHanded == UNION {wrTasks[t] \ wrPending[t] : t \in DOMAIN wrTasks}
LinesFinished == {l \in LinesHanded : \A t \in DOMAIN wrTasks : l \in wrTasks[t] => wrCurrent[t] = <<>>}

\* C18: with several column tasks writing concurrently, every line of the
\* stream is the whole text of a line handed to write, no handed line appears
\* twice, and once every write has returned each handed line is in the stream
\* exactly once; their order is free.
C18_LinesWholeOnceEach ==
    /\ \A p \in DOMAIN StreamLines.whole :
          \E l \in LinesHanded : StreamLines.whole[p] = LineText(l)
    /\ \A x \in DOMAIN SeqToBag(StreamLines.whole) : SeqToBag(StreamLines.whole)[x] = 1
    /\ {LineText(l) : l \in LinesFinished} \subseteq DOMAIN SeqToBag(StreamLines.whole)
    /\ (\A t \in DOMAIN wrTasks : wrCurrent[t] = <<>>) => StreamLines.rest = <<>>

\* the task of the second column has written its line, the task of the first
\* column has called write after it and is in the middle of its line
C18_Witness ==
    /\ Cardinality(DOMAIN wrTasks) >= 2
    /\ wrOwner = 1
    /\ Len(StreamLines.whole) >= 1
    /\ StreamLines.whole[1] \in {LineText(l) : l \in wrTasks[2]}
    /\ StreamLines.rest # <<>>
    /\ wrCurrent[1] # <<>>

\* the tasks submitted to the pool and not yet finished
PendingTasks == {queue[x] : x \in DOMAIN queue} \cup running

\* the matrix and the candidates the row phase of the current pair ends with
RowPhaseResult ==
    RowPhase(kmers[rowGenome].genes, kmers[colGenome].genes, colGenome = rowGenome, 0,
             [scores |-> ScoresContainer(Len(genomes[rowGenome]), Len(genomes[colGenome])),
              bestRows |-> BBHCandidatesContainer(Len(genomes[rowGenome]),
                                                  Len(genomes[colGenome])),
              written |-> EmptyBag])

\* C21: when the polling loop of the row phase exits no submitted task is queued
\* or executing; no column task is queued or runs while a row task of the pair
\* is unfinished; and from the call of getPossibleMatch on, the matrix and the
\* candidates hold every write of the row phase.
C21_RowFenceBeforeColumnPhase ==
    /\ pc = "check" => tasksCompleted
    /\ (\E t \in PendingTasks : t.kind \in {"col", "colSame"}) =>
          (\A t \in PendingTasks : t.kind \notin {"row", "rowSame"})
    /\ pc \in {"check", "colFence"} =>
          /\ scores = RowPhaseResult.scores
          /\ bestRows = RowPhaseResult.bestRows

\* column tasks of a pair with two rows are under way with two workers
C21_Witness ==
    /\ pc = "colFence"
    /\ threadNumber >= 2
    /\ Len(genomes[rowGenome]) >= 2
    /\ \E t \in running : t.kind = "col"
    /\ \A r \in DOMAIN bestRows : bestRows[r].list # {}

\* the run is over: the driver returned, or left by an exception
Returned == pc \in {"done", "thrown", "ctorThrown"}

\* C22: with the driver and the workers scheduled fairly, every submitted task
\* is eventually executed, every fence is eventually passed, and the run
\* eventually ends, for every genome list (empty genomes and pairs without a
\* candidate column included).
C22_EventuallyReturns ==
    /\ <>Returned
    /\ (PendingTasks # {}) ~> tasksCompleted
    /\ (pc = "rowFence") ~> (pc = "check")
    /\ (pc = "colFence") ~> (pc = "pairDone")

\* a finished run over two genomes, one of them empty (its pairs submit no
\* task at either fence), the other with a pair that wrote output
C22_Witness ==
    /\ pc = "done"
    /\ Len(genomes) >= 2
    /\ \E g \in DOMAIN genomes : genomes[g] = <<>>
    /\ out # EmptyBag

RowTaskKinds == {"row", "rowSame"}

\* the pair whose containers are allocated compares a genome with itself
LastPairSame ==
    compared # <<>> /\ compared[Len(compared)][1] = compared[Len(compared)][2]

\* the row tasks that end in the step
RowTasksEnding == {t \in running \ running' : t.kind \in RowTaskKinds}

\* C23: a row task changes only cells of its own row and only its own
\* CandidateSet, and only row tasks (and the allocation of a pair) change the
\* matrix or the candidates during the row phase; no two queued or running
\* tasks are the same task; every cell is set at most once per genome pair,
\* and in a same-genome pair only cells with col > row are set.
C23_RowTaskWritesOwnRow ==
    /\ [](\A cell \in BagToSet(written) :
            /\ CopiesIn(cell, written) = 1
            /\ LastPairSame => cell[2] > cell[1])
    /\ [](/\ \A x, y \in DOMAIN queue : x # y => queue[x] # queue[y]
          /\ \A x \in DOMAIN queue : queue[x] \notin running)
    /\ [][\A t \in RowTasksEnding :
            /\ \A r \in DOMAIN scores :
                 r # t.idx => scores'[r] = scores[r] /\ bestRows'[r] = bestRows[r]
            /\ \A cell \in BagToSet(written' (-) written) : cell[1] = t.idx
            /\ \A c \in DOMAIN scores[t.idx] :
                 scores'[t.idx][c] # scores[t.idx][c] => <<t.idx, c>> \in BagToSet(written')]_vars
    /\ [][(pc \in {"rowFence", "check"}
            /\ (scores' # scores \/ bestRows' # bestRows \/ written' # written))
           => RowTasksEnding # {}]_vars

\* two row tasks execute at the same time after a third has set its cells
C23_Witness ==
    /\ Cardinality({t \in running : t.kind \in RowTaskKinds}) >= 2
    /\ written # EmptyBag
    /\ \E r \in DOMAIN scores : \E c \in DOMAIN scores[r] : scores[r][c] # Zero

\* C24: once the row phase of a pair has completed, every row of the matrix
\* that is not all zero has candidates[r].best equal to the maximum score of
\* the row and candidates[r].columns equal to the set of columns holding it.
C24_CandidatesAreRowMaxima ==
    (pc = "check") =>
        \A r \in DOMAIN scores :
            (\E c \in DOMAIN scores[r] : getScoreAt(scores, r, c) # Zero) =>
                /\ \A c \in DOMAIN scores[r] :
                     ScoreLe(getScoreAt(scores, r, c), getBestScoreForCandidate(bestRows, r))
                /\ \E c \in DOMAIN scores[r] :
                     ScoreEq(getScoreAt(scores, r, c), getBestScoreForCandidate(bestRows, r))
                /\ bestRows[r].list =
                     {c \in DOMAIN scores[r] :
                        ScoreEq(getScoreAt(scores, r, c), getBestScoreForCandidate(bestRows, r))}

(***************************************************************************)
(* BBHCandidatesContainer on its own: a fresh container, any sequence of   *)
(* addCandidate calls, and getPossibleMatch on what they leave.            *)
(***************************************************************************)
\* the scores a caller submits: zero, a proper fraction, one, and the NaN of
\* calculateSimilarity
CandScores == {Zero, Divide(1, 2), One, NaN}

CdInit ==
    /\ \E capacity \in 0..MaxCandRows :
          cdCands = BBHCandidatesContainer(capacity, MaxCandCols)
    /\ cdSubmitted = {}
    /\ cdMatch = <<>>
    /\ cdCalls = 0
    /\ DriverIdle
    /\ SimIdle
    /\ KhIdle
    /\ WrIdle

\* addCandidate(candidateIndex, newScore, newIndex); a map returned earlier is
\* no longer held by the caller
CdAddCandidate ==
    /\ cdCalls < MaxAdds
    /\ \E candidateIndex \in DOMAIN cdCands, newIndex \in 0..(MaxCandCols - 1),
          newScore \in CandScores :
          /\ cdCands' = addCandidate(cdCands, candidateIndex, newScore, newIndex)
          /\ cdSubmitted' = cdSubmitted \cup {<<candidateIndex, newIndex, newScore>>}
    /\ cdMatch' = <<>>
    /\ cdCalls' = cdCalls + 1
    /\ UNCHANGED <<simVars, driverVars, ctorVars, khVars, wrVars, histVars>>

\* getPossibleMatch() const: the caller holds the returned map
CdGetPossibleMatch ==
    /\ cdMatch = <<>>
    /\ cdMatch' = <<getPossibleMatch(cdCands)>>
    /\ UNCHANGED <<cdCands, cdSubmitted, cdCalls>>
    /\ UNCHANGED <<simVars, driverVars, ctorVars, khVars, wrVars, histVars>>

CdNext == CdAddCandidate \/ CdGetPossibleMatch

SpecCand == CdInit /\ [][CdNext]_vars

\* C25: after any sequence of addCandidate calls on a fresh container every
\* row's candidate has either best = 0 and no column, or best > 0 and a
\* non-empty set of columns each of which was submitted for that row with a
\* score equal to best.
C25_CandidateInvariant ==
    \A r \in DOMAIN cdCands :
        \/ /\ getBestScoreForCandidate(cdCands, r) = Zero
           /\ cdCands[r].list = {}
        \/ /\ ScoreLt(Zero, getBestScoreForCandidate(cdCands, r))
           /\ cdCands[r].list # {}
           /\ \A col \in cdCands[r].list :
                 <<r, col, getBestScoreForCandidate(cdCands, r)>> \in cdSubmitted

\* a row holds two tied columns and was also handed a lower score; a zero or
\* a NaN was among the submitted scores
C25_Witness ==
    /\ cdCalls = MaxAdds
    /\ \E r \in DOMAIN cdCands :
          /\ Cardinality(cdCands[r].list) >= 2
          /\ \E s \in cdSubmitted :
                s[1] = r /\ ScoreLt(s[3], getBestScoreForCandidate(cdCands, r))
    /\ \E s \in cdSubmitted : IsNaN(s[3]) \/ s[3] = Zero

RECURSIVE PairsFrom(_, _, _)
PairsFrom(i, j, n) ==
    IF i > n THEN <<>>
    ELSE IF j > n THEN PairsFrom(i + 1, i + 1, n)
    ELSE <<<<i, j>>>> \o PairsFrom(i, j + 1, n)

IsPrefix(s, t) == Len(s) <= Len(t) /\ s = SubSeq(t, 1, Len(s))

\* the genome whose genes include the one at file position p
GenomeOfPosition(p) ==
    CHOOSE g \in DOMAIN genomes :
        GenomeOffset(genomes, g) <= p /\ p < GenomeOffset(genomes, g) + Len(genomes[g])

\* C28: in both modes the pair functions are called for (i, i) and for (i, j),
\* i < j, once each and in the order (1,1), (1,2), .., (1,n), (2,2), ..; the
\* first argument pair is always the row genome, so the first field of every
\* line is a gene of the pair's first genome and the second field a gene of
\* its second genome.
C28_EachPairOnceRowFirst ==
    /\ IsPrefix(compared, PairsFrom(1, 1, Len(genomes)))
    /\ pc = "done" => compared = PairsFrom(1, 1, Len(genomes))
    /\ \A line \in BagToSet(out) :
          /\ GenomeOfPosition(line[1]) <= GenomeOfPosition(line[2])
          /\ \E x \in DOMAIN compared :
                compared[x] = <<GenomeOfPosition(line[1]), GenomeOfPosition(line[2])>>

\* a finished run over three genomes with a line between two of them
C28_Witness ==
    /\ pc = "done"
    /\ Len(genomes) >= 3
    /\ Len(compared) = 6
    /\ \E line \in BagToSet(out) : GenomeOfPosition(line[1]) # GenomeOfPosition(line[2])

ColTaskKinds == {"col", "colSame"}

\* C27: from the end of the row phase until the pair function returns (and
\* its containers go out of scope) no step changes the score matrix or the
\* candidates: getPossibleMatch and every column task only read them, and a
\* column task changes nothing shared but the output.
C27_ColumnPhaseReadsOnly ==
    /\ [][(pc \in {"check", "colFence"} /\ pc' # "pairDone")
           => (scores' = scores /\ bestRows' = bestRows)]_vars
    /\ [][(\E t \in running \ running' : t.kind \in ColTaskKinds)
           => UNCHANGED <<scores, bestRows, match, kmers, mapper, queue, genomes>>]_vars

\* one column task has written an edge while another is executing
C27_Witness ==
    /\ pc = "colFence"
    /\ edges # EmptyBag
    /\ \E t \in running : t.kind \in ColTaskKinds
    /\ \E r \in DOMAIN bestRows : bestRows[r].list # {}

\* C29: in both modes, while a pair function is called or any of its row tasks
\* is queued or executing, the k-mer containers of the row genome and of the
\* column genome are built; a genome's containers are released only when no
\* task is queued or executing; and a run that returns normally leaves no
\* genome with k-mer containers.
C29_KmersBuiltWhileCompared ==
    /\ []((pc \in {"same", "different", "rowFence"}
            \/ \E t \in PendingTasks : t.kind \in RowTaskKinds)
          => {rowGenome, colGenome} \subseteq BuiltGenomes)
    /\ [](pc = "done" => BuiltGenomes = {})
    /\ [][(\E g \in BuiltGenomes : ~kmers'[g].built) => tasksCompleted]_vars

\* an eager run over two or more genomes has computed similarities, written a
\* line and returned
C29_Witness ==
    /\ ~mode
    /\ pc = "done"
    /\ Len(compared) >= 3
    /\ written # EmptyBag
    /\ out # EmptyBag
    /\ BuiltGenomes = {}

\* the k-mer substrings of the genes of genome g
GenomeWindows(g) ==
    UNION {{Windows(genomes[g][x])[w] : w \in DOMAIN Windows(genomes[g][x])} :
           x \in DOMAIN genomes[g]}

\* the mapper instance the k-mers of the current pair were built with: in lazy
\* mode the row iteration's mapper, in eager mode the one of the build loop
CurrentMapper ==
    IF mode THEN mapper ELSE InternGenomes(<<>>, genomes, 1, Len(genomes))

\* C30: while a pair function is called or a row task is pending, in both
\* modes, the containers of the row genome's and of the column genome's genes
\* are keyed by one mapper, in which every k-mer substring of the two genomes
\* has one key and different substrings have different keys.
C30_PairKeyedBySameMapper ==
    (pc \in {"same", "different", "rowFence"}
     \/ \E t \in PendingTasks : t.kind \in RowTaskKinds)
    => /\ \A x, y \in DOMAIN CurrentMapper :
             CurrentMapper[x] = CurrentMapper[y] => x = y
       /\ \A g \in {rowGenome, colGenome} :
             /\ \A w \in GenomeWindows(g) : Interned(CurrentMapper, w)
             /\ kmers[g].genes = GenesOf(CurrentMapper, genomes[g])

\* lazy mode, third genome as column of the first: its k-mers were built with
\* the row's mapper after the second genome added keys to it; it shares a
\* substring with the row genome and has one the row genome lacks
C30_Witness ==
    /\ mode
    /\ pc = "rowFence"
    /\ rowGenome = 1
    /\ colGenome = 3
    /\ PendingTasks # {}
    /\ GenomeWindows(1) \cap GenomeWindows(3) # {}
    /\ GenomeWindows(3) \ GenomeWindows(1) # {}
    /\ GenomeWindows(2) \ GenomeWindows(1) # {}

\* C31: whenever a pair of genes reaches the merge (the length filter let it
\* through), the container whose getBiggerKey is read at line 278, the longest
\* one, is not empty; two genes shorter than k included.
C31_BiggerKeyOfNonEmpty ==
    /\ (simFwd # NoScore /\ ~LengthFilter(simGenes[1], simGenes[2]))
          => LongestContainer(simGenes[1], simGenes[2]) # <<>>
    /\ (simBwd # NoScore /\ ~LengthFilter(simGenes[2], simGenes[1]))
          => LongestContainer(simGenes[2], simGenes[1]) # <<>>

\* C32: the matrix, the candidates and the map of getPossibleMatch exist as
\* long as a task of the pair is queued or executing: every pending task finds
\* its row, or its entry of the map, and no step deletes the map, leaves the
\* pair function or replaces the containers while a task is pending.
C32_PairObjectsOutliveTasks ==
    /\ [](\A t \in PendingTasks :
            /\ t.kind \in RowTaskKinds =>
                  t.idx \in DOMAIN scores /\ t.idx \in DOMAIN bestRows
            /\ t.kind \in ColTaskKinds =>
                  /\ t.idx \in DOMAIN match
                  /\ match[t.idx] \subseteq DOMAIN scores
                  /\ match[t.idx] \subseteq DOMAIN bestRows)
    /\ [][(pc = "colFence"
            /\ (match' # match \/ scores' # scores \/ bestRows' # bestRows))
           => PendingTasks = {}]_vars
    /\ [][(pc' # pc /\ pc' \in {"pairDone", "thrown", "same", "different"})
           => PendingTasks = {}]_vars

\* a pair function has returned after two workers ran its column tasks: the
\* edges are written, the map is deleted and the containers are gone
C32_Witness ==
    /\ pc = "pairDone"
    /\ threadNumber >= 2
    /\ edges # EmptyBag
    /\ scores = <<>>
    /\ bestRows = <<>>
    /\ match = <<>>

\* C33: a second call of calculateKmers on the same handler returns with the
\* dictionary holding the same keys, each with the same multiplicity, as the
\* first call left; a call of calculateKmersString changes neither.
C33_CalculateKmersIdempotent ==
    /\ []((khPc = "returned" /\ khCalls >= 2)
          => DictionaryView(dictionary_, khHeap) = khFirst)
    /\ [][calculateKmersString
           => DictionaryView(dictionary_', khHeap') = DictionaryView(dictionary_, khHeap)]_vars

\* the second call has returned on a sequence with a repeated window, after a
\* call of calculateKmersString
C33_Witness ==
    /\ khPc = "returned"
    /\ khCalls = 2
    /\ khString # <<>>
    /\ Cardinality(DOMAIN dictionary_) >= 2
    /\ \E f \in DOMAIN dictionary_ : getMultiplicity(khHeap[dictionary_[f]]) >= 2

====
